---- MODULE Spec2Model ----
(***************************************************************************)
(* Model of the social-media reply service: the FastAPI application of     *)
(* main.py (lifespan, check_services, create_reply, health_check), the     *)
(* model client of llm_handler.py (generate_reply and its post-processing  *)
(* of the backend text) and the persistence client of database.py          *)
(* (connect_to_mongo, close_mongo_connection, save_reply).                 *)
(*                                                                         *)
(* A request runs on the event loop: the code between two awaits that      *)
(* really suspend (the backend call, the insert) is one atomic step.       *)
(***************************************************************************)
EXTENDS Integers, Sequences, FiniteSets, TLC

\* ------------------------------------------------------------------ bounds
\* Number of POST /reply requests in flight over the life of the process.
NumReqs == 2
\* Longest backend text the post-processing is checked on.
MaxLen == 5

Reqs == 1..NumReqs

\* ------------------------------------------------------------- characters
\* A text is a sequence of characters; four classes of character matter to
\* str.strip(), startswith and endswith.
DQ == "\""
SQ == "'"
WS == " "
Chars == {DQ, SQ, WS, "a"}

RECURSIVE TextsOfLen(_)
TextsOfLen(n) ==
    IF n = 0 THEN {<<>>}
    ELSE {Append(t, c) : t \in TextsOfLen(n - 1), c \in Chars}

AllTexts == UNION {TextsOfLen(n) : n \in 0..MaxLen}

\* ------------------------------------------------------- llm_handler.py

\* str.strip(): drop the leading and the trailing whitespace.
RECURSIVE lstrip(_)
lstrip(t) == IF t # <<>> /\ Head(t) = WS THEN lstrip(Tail(t)) ELSE t

RECURSIVE rstrip(_)
rstrip(t) ==
    IF t # <<>> /\ t[Len(t)] = WS THEN rstrip(SubSeq(t, 1, Len(t) - 1)) ELSE t

strip(t) == rstrip(lstrip(t))

startswith(t, c) == t # <<>> /\ t[1] = c
endswith(t, c) == t # <<>> /\ t[Len(t)] = c

\* t[1:-1]
slice_1_m1(t) == SubSeq(t, 2, Len(t) - 1)

\* The post-processing of response.text in generate_reply.
post_process(text) ==
    LET generated_text == strip(text)
    IN  IF startswith(generated_text, DQ) /\ endswith(generated_text, DQ)
        THEN slice_1_m1(generated_text)
        ELSE IF startswith(generated_text, SQ) /\ endswith(generated_text, SQ)
        THEN slice_1_m1(generated_text)
        ELSE generated_text


\* What generate_reply hands back to its caller: a text, None, or (never, in
\* this code) an exception that propagates.
RetText(t) == [raised |-> FALSE, isNone |-> FALSE, text |-> t]
RetNone == [raised |-> FALSE, isNone |-> TRUE, text |-> <<>>]
RetRaised == [raised |-> TRUE, isNone |-> FALSE, text |-> <<>>]
NotCalled == [raised |-> FALSE, isNone |-> FALSE, text |-> <<"<not called>">>]

\* What the backend call model.generate_content_async can come back with:
\* a response with parts and a text, a response without parts (blocked or
\* empty: the two differ in the warning logged only), or an exception.
BackendTexts ==
    { <<"a">>, <<WS, "a", WS>>, <<DQ, "a", DQ>>, <<SQ, "a", SQ>>,
      <<WS, WS>>, <<DQ, DQ>>, <<SQ, SQ>>, <<DQ>>, <<SQ>> }

BackendOutcomes ==
    [kind : {"text"}, text : BackendTexts]
    \cup [kind : {"no_parts", "error"}, text : {<<>>}]

\* Variant without the try/except: the backend's exception leaves the function.
generate_reply_return_propagating(o) ==
    IF o.kind = "error" THEN RetRaised
    ELSE IF o.kind = "text" THEN RetText(post_process(o.text))
    ELSE RetNone

\* generate_reply from the return of the backend call on.
generate_reply_return(o) ==
    IF o.kind = "error" THEN RetNone
    ELSE IF o.kind = "text" THEN RetText(post_process(o.text))
    ELSE RetNone

\* ------------------------------------------------------------- models.py

\* A JSON member of the request body: absent, a number, or a text.
Absent == [kind |-> "absent", val |-> ""]
Number == [kind |-> "number", val |-> "123"]
Text(s) == [kind |-> "text", val |-> s]

Body(p, t) == [platform |-> p, post_text |-> t]
NoBody == Body(Absent, Absent)

PostBodies ==
    { Body(Text("Twitter"), Text("hi")), Body(Text("LinkedIn"), Text("hi")),
      Body(Text("Twitter"), Absent), Body(Absent, Text("hi")),
      Body(Number, Text("hi")), Body(Text("Twitter"), Number) }

\* PostData: both fields required, both str (no coercion of a number).
PostData_valid(b) == b.platform.kind = "text" /\ b.post_text.kind = "text"

ReplyResponse(p, t, g) ==
    [status_code |-> 200, platform |-> p, post_text |-> t, generated_reply |-> g]

\* StoredReply: the ReplyResponse fields, id = None until the store assigns one.
StoredReply(p, t, g) ==
    [made |-> TRUE, platform |-> p, post_text |-> t, generated_reply |-> g]
NoStoredReply == [made |-> FALSE]

ErrorResponse(code, d) == [status_code |-> code, detail |-> d]
NoResponse == [status_code |-> 0]


\* ------------------------------------------------------------------ state

VARIABLES
    genai_configured,   \* llm_handler: set once when the module is imported
    MONGODB_URI,        \* database: TRUE iff the environment variable is set
    client,             \* database: "None", "open" or "closed"
    db,                 \* database: "None" or "handle"
    reply_collection,   \* database: "None" or "handle"
    collection,         \* the documents the store holds
    phase,              \* lifespan: "starting", "serving", "stopped"
    health,             \* the last answer of GET /health
    pc,                 \* per request: where the handler stands
    body,               \* per request: the JSON body posted
    backend,            \* per request: what the backend call came back with
    gen,                \* per request: what generate_reply returned
    stored,             \* per request: the StoredReply create_reply built
    persist,            \* per request: outcome of the persistence step
    llm_calls,          \* per request: backend invocations
    save_calls,         \* per request: save_reply invocations
    inserts,            \* per request: insert_one calls issued
    response,           \* per request: the HTTP response sent
    responses,          \* per request: number of responses sent
    trace,              \* per request: the stages passed, in order
    strip_in,           \* post-processing harness: the backend text
    strip_out           \* post-processing harness: the text returned

cfgVars == <<genai_configured, MONGODB_URI>>
dbVars == <<client, db, reply_collection>>
reqVars ==
    <<pc, body, backend, gen, stored, persist, llm_calls, save_calls, inserts,
      response, responses, trace>>
stripVars == <<strip_in, strip_out>>
vars == <<cfgVars, dbVars, collection, phase, health, reqVars, stripVars>>

NoHealth == [status_code |-> 0]
NotApplied == <<"<not applied>">>

\* llm_handler.py at import: genai_configured is False when GOOGLE_API_KEY is
\* unset or genai.configure raises, True otherwise.
llm_handler_import == genai_configured \in BOOLEAN

\* database.py at import: the three handles are None.
database_import ==
    /\ MONGODB_URI \in BOOLEAN
    /\ client = "None"
    /\ db = "None"
    /\ reply_collection = "None"

RequestsInit ==
    /\ pc = [r \in Reqs |-> "idle"]
    /\ body = [r \in Reqs |-> NoBody]
    /\ backend = [r \in Reqs |-> "none"]
    /\ gen = [r \in Reqs |-> NotCalled]
    /\ stored = [r \in Reqs |-> NoStoredReply]
    /\ persist = [r \in Reqs |-> "none"]
    /\ llm_calls = [r \in Reqs |-> 0]
    /\ save_calls = [r \in Reqs |-> 0]
    /\ inserts = [r \in Reqs |-> 0]
    /\ response = [r \in Reqs |-> NoResponse]
    /\ responses = [r \in Reqs |-> 0]
    /\ trace = [r \in Reqs |-> <<>>]

Init ==
    /\ llm_handler_import
    /\ database_import
    /\ collection = {}
    /\ phase = "starting"
    /\ health = NoHealth
    /\ RequestsInit
    /\ strip_in = <<>>
    /\ strip_out = NotApplied

\* ----------------------------------------------------------- database.py

is_db_connected == reply_collection # "None"

ConnectOutcomes == {"ok", "client_raises", "ping_raises"}

\* connect_to_mongo; o is what AsyncIOMotorClient(...) and the ping do.
connect_to_mongo(o) ==
    IF MONGODB_URI
    THEN IF o = "ok"
         THEN /\ client' = "open"
              /\ db' = "handle"
              /\ reply_collection' = "handle"
         ELSE \* except Exception
              /\ client' = "None"
              /\ db' = "None"
              /\ reply_collection' = "None"
    ELSE /\ db' = "None"
         /\ reply_collection' = "None"
         /\ UNCHANGED client

\* close_mongo_connection: client.close() if there is a client; no handle is
\* reset.
close_mongo_connection ==
    /\ client' = IF client # "None" THEN "closed" ELSE client
    /\ UNCHANGED <<db, reply_collection>>

InsertOutcomes == {"ok", "raises"}

\* Variant without the try/except: the insert's exception leaves save_reply.
save_reply_return_propagating(o) ==
    IF o = "ok"
    THEN [raised |-> FALSE, inserted_id |-> "id"]
    ELSE [raised |-> TRUE, inserted_id |-> "None"]

\* save_reply from the return of insert_one on; o is what insert_one did.
\* An exception of the insert is caught and None returned.
save_reply_return(o) ==
    IF o = "ok"
    THEN [raised |-> FALSE, inserted_id |-> "id"]
    ELSE [raised |-> FALSE, inserted_id |-> "None"]

\* reply_data.model_dump(by_alias=True, exclude_none=True): the id, None, is
\* left out; the store assigns _id.
document(r, reply_data) ==
    [_id |-> <<r, inserts[r]>>,
     platform |-> reply_data.platform,
     post_text |-> reply_data.post_text,
     generated_reply |-> reply_data.generated_reply]


\* ---------------------------------------------------------------- main.py

is_llm_available == genai_configured

\* lifespan, before the yield: connect_to_mongo, then serve.
lifespan_startup ==
    /\ phase = "starting"
    /\ \E o \in ConnectOutcomes : connect_to_mongo(o)
    /\ phase' = "serving"
    /\ UNCHANGED <<cfgVars, collection, health, reqVars, stripVars>>

\* lifespan, after the yield: the server has drained the requests in flight.
lifespan_shutdown ==
    /\ phase = "serving"
    /\ \A r \in Reqs : pc[r] \in {"idle", "responded"}
    /\ close_mongo_connection
    /\ phase' = "stopped"
    /\ UNCHANGED <<cfgVars, collection, health, reqVars, stripVars>>

\* Variant: one healthy dependency is enough for 200.
health_check_any ==
    LET db_status == IF is_db_connected THEN "connected" ELSE "disconnected"
        llm_status == IF is_llm_available THEN "available" ELSE "unavailable"
    IN  IF db_status = "connected" \/ llm_status = "available"
        THEN [status_code |-> 200, status |-> "ok",
              database |-> db_status, llm |-> llm_status]
        ELSE [status_code |-> 503, status |-> "error",
              database |-> db_status, llm |-> llm_status]

\* GET /health
health_check ==
    LET db_status == IF is_db_connected THEN "connected" ELSE "disconnected"
        llm_status == IF is_llm_available THEN "available" ELSE "unavailable"
    IN  IF db_status = "connected" /\ llm_status = "available"
        THEN [status_code |-> 200, status |-> "ok",
              database |-> db_status, llm |-> llm_status]
        ELSE [status_code |-> 503, status |-> "error",
              database |-> db_status, llm |-> llm_status]

GetHealth ==
    /\ phase = "serving"
    /\ health' = health_check
    /\ UNCHANGED <<cfgVars, dbVars, collection, phase, reqVars, stripVars>>

\* The details of the error responses of POST /reply; a detail that embeds
\* str(e) is the pair <<prefix, str(e)>>.
UnavailableDetail == <<"LLM service is not configured or unavailable.">>
FailedDetail == <<"Failed to generate reply using the language model.">>
UnexpectedDetail(msg) ==
    <<"An unexpected error occurred during reply generation: ", msg>>
\* str() of HTTPException(500, FailedDetail) and of a backend exception
StrOfFailedHTTPException ==
    "500: Failed to generate reply using the language model."
StrOfBackendException == "backend error"
ValidationDetail == <<"field required / string expected">>
InternalServerError == <<"Internal Server Error">>

\* Variant: the gate lets every request through.
check_services_passing == NoResponse

\* check_services: the HTTPException it raises, or NoResponse when it passes.
check_services ==
    IF ~ is_llm_available
    THEN ErrorResponse(503, UnavailableDetail)
    ELSE NoResponse

\* The response is sent and the request is over.
Respond(r, resp, stages) ==
    /\ response' = [response EXCEPT ![r] = resp]
    /\ responses' = [responses EXCEPT ![r] = @ + 1]
    /\ pc' = [pc EXCEPT ![r] = "responded"]
    /\ trace' = [trace EXCEPT ![r] = @ \o stages \o <<"responded">>]

\* A POST /reply arrives with body b.
PostReply(r, b) ==
    /\ phase = "serving"
    /\ pc[r] = "idle"
    /\ pc' = [pc EXCEPT ![r] = "received"]
    /\ body' = [body EXCEPT ![r] = b]
    /\ trace' = [trace EXCEPT ![r] = <<"received">>]
    /\ UNCHANGED <<cfgVars, dbVars, collection, phase, health, backend, gen,
                   stored, persist, llm_calls, save_calls, inserts, response,
                   responses, stripVars>>

\* Variant: a failed generation calls the backend again.
generation_failed_retrying(r, ret) ==
    /\ pc' = [pc EXCEPT ![r] = "llm_wait"]
    /\ llm_calls' = [llm_calls EXCEPT ![r] = @ + 1]
    /\ trace' = [trace EXCEPT ![r] = @ \o <<"generation_failed">>]
    /\ UNCHANGED <<response, responses>>

\* create_reply, lines 63-76: generate_reply returned None or the call raised.
\* The HTTPException of the None check is raised inside the try and caught by
\* its except Exception, like any other exception.
generation_failed(r, ret) ==
    /\ Respond(r,
           ErrorResponse(500,
               UnexpectedDetail(IF ret.raised
                                THEN StrOfBackendException
                                ELSE StrOfFailedHTTPException)),
           <<"generation_failed">>)
    /\ UNCHANGED llm_calls

\* create_reply from the return of llm_generate_reply on (ret), up to the
\* insert_one await or the response.
create_reply_resume(r, ret) ==
    /\ gen' = [gen EXCEPT ![r] = ret]
    /\ IF ret.raised \/ ret.isNone
       THEN /\ generation_failed(r, ret)
            /\ UNCHANGED <<stored, persist, save_calls, inserts>>
       ELSE LET reply_to_store ==
                    StoredReply(body[r].platform.val, body[r].post_text.val,
                                ret.text)
            IN  /\ stored' = [stored EXCEPT ![r] = reply_to_store]
                /\ UNCHANGED llm_calls
                /\ IF is_db_connected
                   THEN \* save_reply is called
                        /\ save_calls' = [save_calls EXCEPT ![r] = @ + 1]
                        /\ IF reply_collection = "None"
                           THEN /\ persist' = [persist EXCEPT ![r] = "failed"]
                                /\ Respond(r,
                                       ReplyResponse(reply_to_store.platform,
                                           reply_to_store.post_text,
                                           reply_to_store.generated_reply),
                                       <<"generated", "persist_failed">>)
                                /\ UNCHANGED inserts
                           ELSE /\ inserts' = [inserts EXCEPT ![r] = @ + 1]
                                /\ pc' = [pc EXCEPT ![r] = "insert_wait"]
                                /\ trace' = [trace EXCEPT ![r] =
                                                @ \o <<"generated">>]
                                /\ UNCHANGED <<persist, response, responses>>
                   ELSE /\ persist' = [persist EXCEPT ![r] = "skipped"]
                        /\ Respond(r,
                               ReplyResponse(reply_to_store.platform,
                                   reply_to_store.post_text,
                                   reply_to_store.generated_reply),
                               <<"generated", "persist_skipped">>)
                        /\ UNCHANGED <<save_calls, inserts>>


\* POST /reply is dispatched: the dependency check_services runs first, then
\* the body is validated as PostData, then create_reply runs up to the await
\* of the backend call inside generate_reply.
create_reply_enter(r) ==
    /\ phase = "serving"
    /\ pc[r] = "received"
    /\ IF check_services # NoResponse
       THEN /\ Respond(r, check_services, <<>>)
            /\ UNCHANGED <<gen, stored, persist, llm_calls, save_calls,
                           inserts>>
       ELSE IF ~ PostData_valid(body[r])
       THEN /\ Respond(r, ErrorResponse(422, ValidationDetail), <<>>)
            /\ UNCHANGED <<gen, stored, persist, llm_calls, save_calls,
                           inserts>>
       ELSE IF ~ genai_configured
       THEN \* generate_reply returns None without calling the backend
            /\ create_reply_resume(r, RetNone)
       ELSE /\ pc' = [pc EXCEPT ![r] = "llm_wait"]
            /\ llm_calls' = [llm_calls EXCEPT ![r] = @ + 1]
            /\ trace' = [trace EXCEPT ![r] = @ \o <<"validated">>]
            /\ UNCHANGED <<gen, stored, persist, save_calls, inserts,
                           response, responses>>
    /\ UNCHANGED <<cfgVars, dbVars, collection, phase, health, body, backend,
                   stripVars>>

\* model.generate_content_async comes back with o: the rest of generate_reply
\* and of create_reply up to the next await.
backend_returns(r, o) ==
    /\ pc[r] = "llm_wait"
    /\ backend' = [backend EXCEPT ![r] = o.kind]
    /\ create_reply_resume(r, generate_reply_return(o))
    /\ UNCHANGED <<cfgVars, dbVars, collection, phase, health, body,
                   stripVars>>

\* reply_collection.insert_one comes back with o: the rest of save_reply and
\* of create_reply.
insert_returns(r, o) ==
    /\ pc[r] = "insert_wait"
    /\ collection' = IF o = "ok"
                     THEN collection \cup {document(r, stored[r])}
                     ELSE collection
    /\ LET inserted_id == save_reply_return(o)
       IN  IF inserted_id.raised
           THEN /\ persist' = [persist EXCEPT ![r] = "raised"]
                /\ Respond(r, ErrorResponse(500, InternalServerError),
                           <<"persist_failed">>)
           ELSE /\ persist' = [persist EXCEPT ![r] =
                                   IF inserted_id.inserted_id = "None"
                                   THEN "failed" ELSE "persisted"]
                /\ Respond(r,
                       ReplyResponse(stored[r].platform, stored[r].post_text,
                                     stored[r].generated_reply),
                       <<IF inserted_id.inserted_id = "None"
                         THEN "persist_failed" ELSE "persisted">>)
    /\ UNCHANGED <<cfgVars, dbVars, phase, health, body, backend, gen, stored,
                   llm_calls, save_calls, inserts, stripVars>>

Next ==
    \/ lifespan_startup
    \/ lifespan_shutdown
    \/ GetHealth
    \/ \E r \in Reqs, b \in PostBodies : PostReply(r, b)
    \/ \E r \in Reqs : create_reply_enter(r)
    \/ \E r \in Reqs, o \in BackendOutcomes : backend_returns(r, o)
    \/ \E r \in Reqs, o \in InsertOutcomes : insert_returns(r, o)

Spec == Init /\ [][Next]_vars

\* The event loop runs every handler that can run; the backend call and the
\* insert come back (with a result or an exception).
FairSpec ==
    /\ Spec
    /\ \A r \in Reqs : WF_vars(create_reply_enter(r))
    /\ \A r \in Reqs : WF_vars(\E o \in BackendOutcomes : backend_returns(r, o))
    /\ \A r \in Reqs : WF_vars(\E o \in InsertOutcomes : insert_returns(r, o))


\* ------------------------------------------- post-processing on every text
\* The post-processing of generate_reply applied to each text of at most
\* MaxLen characters.
StripInit ==
    /\ llm_handler_import
    /\ database_import
    /\ collection = {}
    /\ phase = "starting"
    /\ health = NoHealth
    /\ RequestsInit
    /\ strip_in \in AllTexts
    /\ strip_out = NotApplied

ApplyPostProcess ==
    /\ strip_out = NotApplied
    /\ strip_out' = post_process(strip_in)
    /\ UNCHANGED <<cfgVars, dbVars, collection, phase, health, reqVars,
                   strip_in>>

StripNext == ApplyPostProcess

StripSpec == StripInit /\ [][StripNext]_vars


\* ------------------------------------------------------------------ claims

Responded(r) == pc[r] = "responded"
GeneratedText(r) == gen[r] # NotCalled /\ ~ gen[r].raised /\ ~ gen[r].isNone

\* C1: every POST /reply whose body lacks platform or post_text, or gives one
\* of them as a number, is answered 422, and neither the readiness gate
\* rejects it nor the backend is called nor an insert issued, whatever the
\* state of the model client and of the store.
C1_InvalidBodyAlways422 ==
    \A r \in Reqs :
        (Responded(r) /\ ~ PostData_valid(body[r]))
            => /\ response[r].status_code = 422
               /\ llm_calls[r] = 0
               /\ save_calls[r] = 0
               /\ inserts[r] = 0

\* C2: every StoredReply that create_reply builds, every record handed to
\* save_reply or inserted, and every 200 body carries a non-empty
\* generated_reply.
C2_GeneratedReplyNeverEmpty ==
    /\ \A r \in Reqs :
        /\ stored[r].made => stored[r].generated_reply # <<>>
        /\ response[r].status_code = 200 => response[r].generated_reply # <<>>
    /\ \A d \in collection : d.generated_reply # <<>>

\* C3: with the model client disabled, every well-formed POST /reply is
\* answered 503, and no request ever invokes the backend or save_reply,
\* whether or not the store is connected.
C3_DisabledAlways503 ==
    ~ genai_configured =>
        \A r \in Reqs :
            /\ llm_calls[r] = 0
            /\ save_calls[r] = 0
            /\ inserts[r] = 0
            /\ (Responded(r) /\ PostData_valid(body[r]))
                   => response[r] = ErrorResponse(503, UnavailableDetail)

C3_Witness ==
    \E r \in Reqs :
        /\ ~ genai_configured
        /\ is_db_connected
        /\ Responded(r)
        /\ PostData_valid(body[r])

\* C4: once generate_reply has returned a text, the response is 200 with the
\* request's platform and post_text and that text, whether the store was
\* disconnected (then no insert was issued), the insert succeeded or the
\* insert raised; no exception of save_reply reaches create_reply.
C4_PersistenceNeverChangesResponse ==
    \A r \in Reqs :
        /\ persist[r] # "raised"
        /\ (Responded(r) /\ GeneratedText(r))
               => /\ response[r] =
                      ReplyResponse(body[r].platform.val,
                                    body[r].post_text.val, gen[r].text)
                  /\ persist[r] \in {"skipped", "persisted", "failed"}
                  /\ (~ is_db_connected => inserts[r] = 0 /\ collection = {})

C4_Witness ==
    \E r1, r2 \in Reqs :
        /\ Responded(r1) /\ persist[r1] = "failed" /\ inserts[r1] = 1
        /\ Responded(r2) /\ persist[r2] = "persisted" /\ inserts[r2] = 1
        /\ response[r1].status_code = 200
        /\ response[r1].generated_reply = <<"a">>

\* C5: when the backend call ends without parts (blocked or empty) or with an
\* exception,
\* generate_reply returns None without raising, POST /reply answers 500, and
\* no StoredReply is built and save_reply is not called.
C5_GenerationFailureIs500 ==
    \A r \in Reqs :
        /\ ~ gen[r].raised
        /\ backend[r] \in {"no_parts", "error"} => gen[r] = RetNone
        /\ (Responded(r) /\ gen[r] = RetNone)
               => /\ response[r].status_code = 500
                  /\ stored[r] = NoStoredReply
                  /\ save_calls[r] = 0
                  /\ inserts[r] = 0

C5_Witness ==
    \E r1, r2 \in Reqs :
        /\ Responded(r1) /\ backend[r1] = "error"
        /\ Responded(r2) /\ backend[r2] = "no_parts"

\* C6: GET /health answers 200 {ok, connected, available} exactly when
\* is_db_connected() and is_llm_available() both hold, and otherwise 503
\* {error} with the database and llm fields giving the two flags.
C6_HealthIffBoth ==
    health # NoHealth =>
        /\ health.status_code = 200 <=> (is_db_connected /\ is_llm_available)
        /\ health.status_code \in {200, 503}
        /\ health.status = IF health.status_code = 200 THEN "ok" ELSE "error"
        /\ health.database = "connected" <=> is_db_connected
        /\ health.database \in {"connected", "disconnected"}
        /\ health.llm = "available" <=> is_llm_available
        /\ health.llm \in {"available", "unavailable"}

C6_Witness ==
    /\ health # NoHealth
    /\ is_db_connected
    /\ ~ is_llm_available

\* The reference of C7: trim; a text wrapped in one matching pair of straight
\* double or single quotes loses that pair, once; anything else is unchanged.
reference_post_process(text) ==
    LET t == strip(text)
    IN  IF Len(t) >= 2 /\ t[1] = t[Len(t)] /\ t[1] \in {DQ, SQ}
        THEN SubSeq(t, 2, Len(t) - 1)
        ELSE t

\* C7: the post-processing of generate_reply equals the reference on every
\* text.
C7_PostProcessEqualsReference ==
    strip_out # NotApplied => strip_out = reference_post_process(strip_in)

\* The texts on which the post-processing leaves the reference: those that
\* trim to a lone quote character.
PostProcessDiffersOnlyOnLoneQuote ==
    strip_out # NotApplied =>
        (strip_out # reference_post_process(strip_in)
            <=> strip(strip_in) \in {<<DQ>>, <<SQ>>})

\* C8: when generate_reply returns None the 500 carries the fixed
\* failed-to-generate detail; the "unexpected error" detail appears only when
\* an exception escaped the model client call.
C8_NoneGivesFixedDetail ==
    \A r \in Reqs :
        (Responded(r) /\ response[r].status_code = 500)
            => /\ gen[r] = RetNone => response[r].detail = FailedDetail
               /\ response[r].detail # FailedDetail => gen[r].raised

\* C9: is_db_connected() is true exactly when the persistence client holds an
\* open connection.
C9_ConnectedIffOpen == is_db_connected <=> client = "open"

\* Until the shutdown, is_db_connected() does follow the connection.
ConnectedIffOpenWhileServing == phase # "stopped" => C9_ConnectedIffOpen

Rank(stage) ==
    CASE stage = "received" -> 1
      [] stage = "validated" -> 2
      [] stage \in {"generated", "generation_failed"} -> 3
      [] stage \in {"persisted", "persist_skipped", "persist_failed"} -> 4
      [] stage = "responded" -> 5

Forward(tr) == \A i \in 1..(Len(tr) - 1) : Rank(tr[i]) < Rank(tr[i + 1])

IsPrefix(s, t) == Len(s) <= Len(t) /\ SubSeq(t, 1, Len(s)) = s

\* C10: each request passes its stages strictly forward; one request invokes
\* the backend at most once, issues at most one insert and gets at most one
\* response; a request received never goes back to idle and one that has
\* responded does nothing more; and, the backend and store calls coming back,
\* there comes a point from which no request is in flight any more (every
\* request received has been answered), however the requests interleave.
C10_ForwardOnceAndAnswered ==
    /\ [](\A r \in Reqs :
            /\ Forward(trace[r])
            /\ llm_calls[r] <= 1
            /\ inserts[r] <= 1
            /\ responses[r] <= 1
            /\ Responded(r) <=> responses[r] = 1)
    /\ [][\A r \in Reqs :
            /\ IsPrefix(trace[r], trace'[r])
            /\ pc[r] # "idle" => pc'[r] # "idle"
            /\ Responded(r) =>
                   /\ Responded(r)'
                   /\ response'[r] = response[r]
                   /\ llm_calls'[r] = llm_calls[r]
                   /\ inserts'[r] = inserts[r]]_vars
    /\ <>[](\A r \in Reqs : pc[r] \in {"idle", "responded"})

C10_Witness ==
    \E r1, r2 \in Reqs :
        /\ trace[r1] =
               <<"received", "validated", "generated", "persisted", "responded">>
        /\ trace[r2] =
               <<"received", "validated", "generation_failed", "responded">>
        /\ llm_calls[r1] = 1 /\ inserts[r1] = 1 /\ llm_calls[r2] = 1

====
